---------------------------- MODULE Spec2Model ----------------------------
(***************************************************************************)
(* The AI agent HTTP server: six POST handlers over two in-memory          *)
(* conversation stores (conversationHistory for /roleplay,                 *)
(* therapistHistory for /therapist-chat) and an external generative model. *)
(*                                                                         *)
(* Node runs one handler step at a time: a handler runs from its entry to  *)
(* its first await (or to its response), and resumes after each await when *)
(* the awaited promise settles.  Each such run is one action here.         *)
(*                                                                         *)
(* JavaScript values are records [type, v]; strings are sequences of       *)
(* tokens, so that String.prototype.match, JSON.parse and                  *)
(* String.prototype.trim are computed on the text the model returned.      *)
(*                                                                         *)
(* History variables record what the claims speak of and the program does  *)
(* not store: the arrival number of a request (nextId, req of an entry,    *)
(* resetAt), what ran while a request was suspended (ctx, before), and     *)
(* the step that ran last (last).                                          *)
(***************************************************************************)
EXTENDS Integers, Sequences, FiniteSets, TLC

\* ------------------------------------------------------------------ bounds
\* Number of requests the server receives in one behaviour.
MaxReq == 2
\* Length, in tokens, of the longest text the model returns.
MaxTextLen == 3

\* --------------------------------------------------------- JavaScript values
Undefined == [type |-> "undefined", v |-> <<>>]
Str(s) == [type |-> "string", v |-> s]

\* A validation that lets the empty string through.
FalsyUndefinedOnly(x) == x.type = "undefined"

\* !x of JavaScript, for the values a JSON body field takes here.
Falsy(x) == x.type = "undefined" \/ (x.type = "string" /\ x.v = <<>>)
Truthy(x) == ~Falsy(x)

\* A field that is missing or empty.
MissingOrEmpty(x) == x = Undefined \/ x = Str(<<>>)

\* Field values of a request body: absent, the empty string, a non-empty one.
FieldValues == {Undefined, Str(<<>>), Str(<<"m">>)}
\* Own keys a store can get, and a key every object literal inherits from
\* Object.prototype ("constructor", "toString", "__proto__", ...).
UserKeys == {<<"u1">>, <<"u2">>}
ProtoKeys == {<<"constructor">>}
UserIdValues == {Undefined, Str(<<>>)} \cup {Str(k) : k \in UserKeys \cup ProtoKeys}

\* ------------------------------------------------------ texts of the model
\* "{" and "}" are the braces, " " is white space, "r" stands for the
\* member  "response":"..."  of a JSON object, "x" for any other character.
Tokens == {"{", "}", " ", "r", "x"}

\* The sequences over S of length at most n.
SeqsUpTo(S, n) == UNION {[1..k -> S] : k \in 0..n}

Texts == SeqsUpTo(Tokens, MaxTextLen)

\* /therapist-chat only trims the text: every token but white space is any
\* other character to it.
ProseTexts == SeqsUpTo({" ", "x"}, MaxTextLen)

\* The value of the "response" member in the parsed object.
ResponseValue == Str(<<"r">>)

\* responseText.match(/\{.*\}/s): with the s flag "." matches every
\* character, and ".*" is greedy, so the match runs from the first "{" to
\* the last "}" after it.  <<>> stands for null (no match).
JsonMatch(text) ==
    LET opens == {i \in 1..Len(text) : text[i] = "{"}
    IN  IF opens = {} THEN <<>>
        ELSE LET first == CHOOSE i \in opens : \A j \in opens : i <= j
                 closes == {j \in 1..Len(text) : text[j] = "}" /\ j > first}
             IN  IF closes = {} THEN <<>>
                 ELSE LET last == CHOOSE j \in closes : \A k \in closes : k <= j
                      IN  SubSeq(text, first, last)

\* The tokens of s that are not white space, in order.
IsToken(t) == t # " "
NonSpace(s) == SelectSeq(s, IsToken)

\* A parser that takes anything between braces for an object.
JsonParseLoose(m) ==
    IF Len(m) >= 2 /\ m[1] = "{" /\ m[Len(m)] = "}"
    THEN [ok |-> TRUE, response |-> IF "r" \in {m[i] : i \in 1..Len(m)}
                                    THEN ResponseValue ELSE Undefined]
    ELSE [ok |-> FALSE, response |-> Undefined]

\* JSON.parse on a text that starts with "{" and ends with "}": it succeeds
\* when the braces enclose, white space apart, no member or one member.
\* Result: [ok, response], response being aiResponse.response.
JsonParse(m) ==
    LET inner == NonSpace(SubSeq(m, 2, Len(m) - 1))
    IN  IF Len(m) >= 2 /\ m[1] = "{" /\ m[Len(m)] = "}" /\ inner = <<>>
        THEN [ok |-> TRUE, response |-> Undefined]
        ELSE IF Len(m) >= 2 /\ m[1] = "{" /\ m[Len(m)] = "}" /\ inner = <<"r">>
        THEN [ok |-> TRUE, response |-> ResponseValue]
        ELSE [ok |-> FALSE, response |-> Undefined]

\* String.prototype.trim: drops leading and trailing white space, that is,
\* keeps the stretch from the first to the last token that is not white space.
Trim(s) ==
    LET kept == {i \in 1..Len(s) : s[i] # " "}
    IN  IF kept = {} THEN <<>>
        ELSE SubSeq(s, CHOOSE i \in kept : \A j \in kept : i <= j,
                       CHOOSE i \in kept : \A j \in kept : j <= i)


\* ------------------------------------------------------------------- state
VARIABLES
    conversationHistory,  \* roleplay store: own key -> sequence of entries
    therapistHistory,     \* therapist store: own key -> sequence of entries
    pending,              \* requests suspended at  await model.generateContent
    nextId,               \* arrival number of the next request
    resetAt,              \* per store and key: arrival number of the last reset answered 200
    last                  \* the handler step that ran last, with its response

vars == <<conversationHistory, therapistHistory, pending, nextId, resetAt, last>>

ChatRoutes == {"/roleplay", "/therapist-chat"}
ModelRoutes == {"/correct-grammar", "/auto-complete"} \cup ChatRoutes

\* An object literal with no own key.
EmptyStore == [k \in {} |-> <<>>]

\* store[key] as JavaScript evaluates its truth: an own key holds an array
\* (truthy, even when empty), a key of Object.prototype holds a truthy
\* value that is no array, any other key holds undefined.
HasOwn(store, key) == key \in DOMAIN store
LookupTruthy(store, key) == HasOwn(store, key) \/ key \in ProtoKeys

\* store[key] = []
WithEmpty(store, key) == [k \in DOMAIN store \cup {key} |-> IF k = key THEN <<>> ELSE store[k]]
\* store[key].push(entry), for an own key
Push(store, key, entry) == [store EXCEPT ![key] = Append(@, entry)]
\* A delete that empties the store.
DeleteAll(store, key) == [k \in {} |-> <<>>]

\* delete store[key]: removes an own key, does nothing otherwise
Delete(store, key) == [k \in DOMAIN store \ {key} |-> store[k]]

\* Entries; req is the arrival number of the request that pushed the entry
\* (history variable, not a field of the program's object).
RoleplayEntry(role, message, id) == [role |-> role, message |-> message, req |-> id]
TherapistEntry(role, content, id) == [role |-> role, content |-> content, req |-> id]

\* The record of one handler step.  outcome: "await" (suspended at the
\* model call), "sent" (wrote the response), "throw" (left by an exception
\* outside try: the async handler's promise rejects and the handler writes
\* no response).  status 0: no response written in this step.
\* id, userId, message: the request that ran; lacking: a field the route
\* requires is missing or empty in it; called: the step called
\* model.generateContent; modelFailed, noJson, ctx, before: see RoleplayRead
\* and Suspended.
StepOf(id, route, userId, message, lacking) ==
    [id |-> id, route |-> route, userId |-> userId, message |-> message,
     lacking |-> lacking, outcome |-> "await", status |-> 0, keys |-> {},
     details |-> "", called |-> FALSE, modelFailed |-> FALSE, noJson |-> FALSE, ctx |-> "alone", before |-> <<>>]

\* res.status(s).json(...) with the given top-level keys.
Sent(step, status, keys, details) ==
    [step EXCEPT !.outcome = "sent", !.status = status, !.keys = keys, !.details = details]

\* res.status(400).json({ error: "..." })
BadRequest(step) == Sent(step, 400, {"error"}, "")
\* res.status(404).json({ error: "User not found" })
NotFound(step) == Sent(step, 404, {"error"}, "")
\* res.json({ <key>: ... })
Ok(step, key) == Sent(step, 200, {key}, "")
\* A catch that leaves the error message out.
ServerErrorBare(step, message) == Sent(step, 500, {"error"}, "")

\* catch (error) { res.status(500).json({ error: "AI model error", details: error.message }) }
ServerError(step, message) == Sent(step, 500, {"error", "details"}, message)

\* ---------------------------------------------- history of what ran meanwhile
\* ctx of a suspended request: "alone" while no other request or reset for
\* its user has run since it arrived, "wiped" once a reset removed its
\* user's history and no request for that user was received since, "other"
\* otherwise.
Received(P, userId) ==
    {IF Truthy(userId) /\ r.userId = userId THEN [r EXCEPT !.ctx = "other"] ELSE r : r \in P}

Resumed(P, userId) ==
    {IF Truthy(userId) /\ r.userId = userId /\ r.ctx = "alone"
     THEN [r EXCEPT !.ctx = "other"] ELSE r : r \in P}

Wiped(P, route, keys) ==
    {IF r.route = route /\ r.userId.v \in keys THEN [r EXCEPT !.ctx = "wiped"] ELSE r : r \in P}

\* A suspended request; before is its user's history as the request found
\* it, <<>> when there was none (history variable, as ctx is).
Suspended(id, route, userId, message, before) ==
    [id |-> id, route |-> route, userId |-> userId, message |-> message,
     ctx |-> "alone", before |-> before]

Before(store, key) == IF HasOwn(store, key) THEN store[key] ELSE <<>>

TypeOK ==
    /\ nextId \in 1..(MaxReq + 1)
    /\ DOMAIN conversationHistory \subseteq UserKeys
    /\ DOMAIN therapistHistory \subseteq UserKeys
    /\ \A r \in pending : r.id \in 0..MaxReq /\ r.route \in ModelRoutes
    /\ \A r \in pending : r.route \in ChatRoutes => r.userId.v \in UserKeys
    /\ last.status \in {0, 200, 400, 404, 500}

Init ==
    /\ conversationHistory = EmptyStore
    /\ therapistHistory = EmptyStore
    /\ pending = {}
    /\ nextId = 1
    /\ resetAt = [s \in {"roleplay", "therapist"} |-> [k \in UserKeys |-> 0]]
    /\ last = StepOf(0, "none", Undefined, Undefined, FALSE)

\* ------------------------------------------------ handlers, up to the await
\* /correct-grammar and /auto-complete: validate, build the prompt, call the
\* model and suspend.
SentenceRoute(route, sentence) ==
    LET step == StepOf(nextId, route, Undefined, Undefined, MissingOrEmpty(sentence))
    IN  /\ nextId <= MaxReq
        /\ nextId' = nextId + 1
        /\ IF Falsy(sentence)
           THEN /\ last' = BadRequest(step)
                /\ pending' = pending
           ELSE /\ last' = [step EXCEPT !.called = TRUE]
                /\ pending' = pending \cup {Suspended(nextId, route, Undefined, Undefined, <<>>)}
        /\ UNCHANGED <<conversationHistory, therapistHistory, resetAt>>

CorrectGrammar(sentence) == SentenceRoute("/correct-grammar", sentence)

AutoComplete(sentence) == SentenceRoute("/auto-complete", sentence)

\* The part of a chat handler before its try block, on its own store:
\*   if (!store[userId]) store[userId] = [];  store[userId].push(entry);
\* thrown: push is not a function, for a key inherited from Object.prototype.
Remember(store, key, entry) ==
    LET created == IF LookupTruthy(store, key) THEN store ELSE WithEmpty(store, key)
    IN  IF HasOwn(created, key)
        THEN [thrown |-> FALSE, store |-> Push(created, key, entry)]
        ELSE [thrown |-> TRUE, store |-> created]

Roleplay(userId, scenario, message) ==
    LET step == StepOf(nextId, "/roleplay", userId, message,
                       MissingOrEmpty(userId) \/ MissingOrEmpty(scenario)
                           \/ MissingOrEmpty(message))
        got == Remember(conversationHistory, userId.v, RoleplayEntry("user", message, nextId))
    IN  /\ nextId <= MaxReq
        /\ nextId' = nextId + 1
        /\ IF Falsy(userId) \/ Falsy(scenario) \/ Falsy(message)
           THEN /\ last' = BadRequest(step)
                /\ pending' = Received(pending, userId)
                /\ conversationHistory' = conversationHistory
           ELSE IF got.thrown
           THEN /\ last' = [step EXCEPT !.outcome = "throw"]
                /\ pending' = Received(pending, userId)
                /\ conversationHistory' = got.store
           ELSE /\ last' = [step EXCEPT !.called = TRUE]
                /\ pending' = Received(pending, userId) \cup
                       {Suspended(nextId, "/roleplay", userId, message,
                                  Before(conversationHistory, userId.v))}
                /\ conversationHistory' = got.store
        /\ UNCHANGED <<therapistHistory, resetAt>>

TherapistChat(userId, message) ==
    LET step == StepOf(nextId, "/therapist-chat", userId, message,
                       MissingOrEmpty(userId) \/ MissingOrEmpty(message))
        got == Remember(therapistHistory, userId.v, TherapistEntry("user", message, nextId))
    IN  /\ nextId <= MaxReq
        /\ nextId' = nextId + 1
        /\ IF Falsy(userId) \/ Falsy(message)
           THEN /\ last' = BadRequest(step)
                /\ pending' = Received(pending, userId)
                /\ therapistHistory' = therapistHistory
           ELSE IF got.thrown
           THEN /\ last' = [step EXCEPT !.outcome = "throw"]
                /\ pending' = Received(pending, userId)
                /\ therapistHistory' = got.store
           ELSE /\ last' = [step EXCEPT !.called = TRUE]
                /\ pending' = Received(pending, userId) \cup
                       {Suspended(nextId, "/therapist-chat", userId, message,
                                  Before(therapistHistory, userId.v))}
                /\ therapistHistory' = got.store
        /\ UNCHANGED <<conversationHistory, resetAt>>

\* ------------------------------------------------------------------ resets
\* resetAt after a reset answered 200 that covers the given keys.
Stamp(store, keys) ==
    [resetAt EXCEPT ![store] = [k \in UserKeys |-> IF k \in keys THEN nextId ELSE @[k]]]

ResetHistory(userId) ==
    LET step == StepOf(nextId, "/reset-history", userId, Undefined, FALSE)
        key == userId.v
    IN  /\ nextId <= MaxReq
        /\ nextId' = nextId + 1
        /\ IF Truthy(userId)
           THEN IF LookupTruthy(conversationHistory, key)
                THEN /\ conversationHistory' = Delete(conversationHistory, key)
                     /\ last' = Ok(step, "message")
                     /\ resetAt' = Stamp("roleplay", {key})
                     /\ pending' = IF HasOwn(conversationHistory, key)
                                   THEN Wiped(Received(pending, userId), "/roleplay", {key})
                                   ELSE Received(pending, userId)
                ELSE /\ conversationHistory' = conversationHistory
                     /\ last' = NotFound(step)
                     /\ resetAt' = resetAt
                     /\ pending' = Received(pending, userId)
           ELSE /\ conversationHistory' = EmptyStore
                /\ last' = Ok(step, "message")
                /\ resetAt' = Stamp("roleplay", UserKeys)
                /\ pending' = Wiped(pending, "/roleplay", DOMAIN conversationHistory)
        /\ UNCHANGED therapistHistory

TherapistReset(userId) ==
    LET step == StepOf(nextId, "/therapist-reset", userId, Undefined, FALSE)
        key == userId.v
    IN  /\ nextId <= MaxReq
        /\ nextId' = nextId + 1
        /\ IF Truthy(userId)
           THEN /\ therapistHistory' = Delete(therapistHistory, key)
                /\ last' = Ok(step, "message")
                /\ resetAt' = Stamp("therapist", {key})
                /\ pending' = IF HasOwn(therapistHistory, key)
                              THEN Wiped(Received(pending, userId), "/therapist-chat", {key})
                              ELSE Received(pending, userId)
           ELSE /\ therapistHistory' = EmptyStore
                /\ last' = Ok(step, "message")
                /\ resetAt' = Stamp("therapist", UserKeys)
                /\ pending' = Wiped(pending, "/therapist-chat", DOMAIN therapistHistory)
        /\ UNCHANGED conversationHistory

\* ------------------------------------------------- handlers, after the await
\* What  await model.generateContent(prompt)  and  result.response.text()
\* give: the promise rejects, text() throws, or text() returns a text.  The
\* second await is on a plain string, so no request or reset runs between
\* the two; the handler's run from the model's reply to its response is one
\* step.
ModelOutcomes(texts) ==
    {[kind |-> "rejected", text |-> <<>>], [kind |-> "threw", text |-> <<>>]}
        \cup {[kind |-> "text", text |-> t] : t \in texts}

\* A text holds a JSON object when some stretch of it is one: braces around
\* white space and at most one member.
IsJsonObject(s) ==
    /\ Len(s) >= 2
    /\ s[1] = "{"
    /\ s[Len(s)] = "}"
    /\ \A i \in 2..(Len(s) - 1) : s[i] \in {" ", "r"}
    /\ Cardinality({i \in 2..(Len(s) - 1) : s[i] = "r"}) <= 1

HoldsJsonObject(text) ==
    \E i \in 1..Len(text) : \E j \in i..Len(text) : IsJsonObject(SubSeq(text, i, j))

\* What the try block of /roleplay makes of the model's outcome before it
\* touches the store:
\*   const jsonMatch = responseText.match(/\{.*\}/s);
\*   if (!jsonMatch) throw new Error("Invalid JSON response from AI");
\*   const aiResponse = JSON.parse(jsonMatch[0]);
\* thrown: the message of the error thrown so far ("" when none);
\* response: aiResponse.response.
RoleplayRead(o) ==
    LET jsonMatch == JsonMatch(o.text)
        aiResponse == JsonParse(jsonMatch)
        noJson == o.kind = "text" /\ ~HoldsJsonObject(o.text)
    IN  IF o.kind # "text"
        THEN [thrown |-> "model error", response |-> Undefined,
              modelFailed |-> TRUE, noJson |-> noJson]
        ELSE IF jsonMatch = <<>>
        THEN [thrown |-> "Invalid JSON response from AI", response |-> Undefined,
              modelFailed |-> FALSE, noJson |-> noJson]
        ELSE IF ~aiResponse.ok
        THEN [thrown |-> "SyntaxError", response |-> Undefined,
              modelFailed |-> FALSE, noJson |-> noJson]
        ELSE [thrown |-> "", response |-> aiResponse.response,
              modelFailed |-> FALSE, noJson |-> noJson]

RoleplayReads == {RoleplayRead(o) : o \in ModelOutcomes(Texts)}

\*   const aiResponse = (await result.response.text()).trim();
TherapistRead(o) ==
    IF o.kind # "text"
    THEN [thrown |-> "model error", response |-> Undefined,
          modelFailed |-> TRUE, noJson |-> FALSE]
    ELSE [thrown |-> "", response |-> Str(Trim(o.text)),
          modelFailed |-> FALSE, noJson |-> FALSE]

TherapistReads == {TherapistRead(o) : o \in ModelOutcomes(ProseTexts)}

\* /correct-grammar and /auto-complete pass the text on as it is.
SentenceRead(o) ==
    IF o.kind # "text"
    THEN [thrown |-> "model error", response |-> Undefined,
          modelFailed |-> TRUE, noJson |-> FALSE]
    ELSE [thrown |-> "", response |-> Str(o.text),
          modelFailed |-> FALSE, noJson |-> FALSE]

SentenceReads == {SentenceRead(o) : o \in ModelOutcomes(ProseTexts)}

\* The step record of a resumed request.
Resume(r, read) ==
    [StepOf(r.id, r.route, r.userId, r.message, FALSE) EXCEPT
        !.ctx = r.ctx, !.before = r.before,
        !.modelFailed = read.modelFailed, !.noJson = read.noJson]

\* /correct-grammar and /auto-complete after the await.
SentenceReply(route, key) ==
    \E read \in SentenceReads : \E r \in pending :
        /\ r.route = route
        /\ pending' = pending \ {r}
        /\ last' = IF read.thrown = "" THEN Ok(Resume(r, read), key)
                   ELSE ServerError(Resume(r, read), read.thrown)
        /\ UNCHANGED <<conversationHistory, therapistHistory, nextId, resetAt>>

CorrectGrammarReply == SentenceReply("/correct-grammar", "correctedSentence")

AutoCompleteReply == SentenceReply("/auto-complete", "completedSentence")

\* A catch that takes the request's user entry back.
ConcludeRollback(store, key, read, entry) ==
    IF read.thrown # "" /\ HasOwn(store, key) /\ store[key] # <<>>
    THEN [store |-> [store EXCEPT ![key] = SubSeq(@, 1, Len(@) - 1)],
          status |-> 500, details |-> read.thrown]
    ELSE IF read.thrown # "" \/ ~HasOwn(store, key)
    THEN [store |-> store, status |-> 500,
          details |-> IF read.thrown # "" THEN read.thrown ELSE "TypeError"]
    ELSE [store |-> Push(store, key, entry), status |-> 200, details |-> ""]

\* A try block that makes the history anew when a reset removed it.
ConcludeRecreate(store, key, read, entry) ==
    IF read.thrown # ""
    THEN [store |-> store, status |-> 500, details |-> read.thrown]
    ELSE [store |-> Push(IF HasOwn(store, key) THEN store ELSE WithEmpty(store, key),
                         key, entry),
          status |-> 200, details |-> ""]

\* The rest of a chat handler's try block, on its own store:
\*   store[userId].push(entry);  res.json(...)
\* with the catch of everything thrown in the block.  store[userId] is
\* undefined when a reset removed the key: the push throws a TypeError.
Conclude(store, key, read, entry) ==
    IF read.thrown # ""
    THEN [store |-> store, status |-> 500, details |-> read.thrown]
    ELSE IF ~HasOwn(store, key)
    THEN [store |-> store, status |-> 500, details |-> "TypeError"]
    ELSE [store |-> Push(store, key, entry), status |-> 200, details |-> ""]

RoleplayReply ==
    \E read \in RoleplayReads : \E r \in pending :
        LET done == Conclude(conversationHistory, r.userId.v, read,
                             RoleplayEntry("ai", read.response, r.id))
        IN  /\ r.route = "/roleplay"
            /\ pending' = Resumed(pending \ {r}, r.userId)
            /\ conversationHistory' = done.store
            /\ last' = IF done.status = 200 THEN Ok(Resume(r, read), "roleplayResponse")
                       ELSE ServerError(Resume(r, read), done.details)
            /\ UNCHANGED <<therapistHistory, nextId, resetAt>>

TherapistChatReply ==
    \E read \in TherapistReads : \E r \in pending :
        LET done == Conclude(therapistHistory, r.userId.v, read,
                             TherapistEntry("ai", read.response, r.id))
        IN  /\ r.route = "/therapist-chat"
            /\ pending' = Resumed(pending \ {r}, r.userId)
            /\ therapistHistory' = done.store
            /\ last' = IF done.status = 200 THEN Ok(Resume(r, read), "therapistResponse")
                       ELSE ServerError(Resume(r, read), done.details)
            /\ UNCHANGED <<conversationHistory, nextId, resetAt>>

\* ----------------------------------------------------------- specification
Next ==
    \/ \E sentence \in FieldValues : CorrectGrammar(sentence)
    \/ \E sentence \in FieldValues : AutoComplete(sentence)
    \/ \E userId \in UserIdValues, scenario, message \in FieldValues :
           Roleplay(userId, scenario, message)
    \/ \E userId \in UserIdValues : ResetHistory(userId)
    \/ \E userId \in UserIdValues, message \in FieldValues : TherapistChat(userId, message)
    \/ \E userId \in UserIdValues : TherapistReset(userId)
    \/ CorrectGrammarReply
    \/ AutoCompleteReply
    \/ RoleplayReply
    \/ TherapistChatReply

Spec == Init /\ [][Next]_vars

\* The server with one chat request, received earlier and numbered 0,
\* suspended at its model call: the state Roleplay or TherapistChat leaves
\* from Init.
InitBusy ==
    \E key \in UserKeys : \E route \in ChatRoutes :
        LET message == Str(<<"m">>)
            entry == IF route = "/roleplay" THEN RoleplayEntry("user", message, 0)
                     ELSE TherapistEntry("user", message, 0)
            store == Remember(EmptyStore, key, entry).store
        IN  /\ conversationHistory = IF route = "/roleplay" THEN store ELSE EmptyStore
            /\ therapistHistory = IF route = "/roleplay" THEN EmptyStore ELSE store
            /\ pending = {Suspended(0, route, Str(key), message, <<>>)}
            /\ nextId = 1
            /\ resetAt = [s \in {"roleplay", "therapist"} |-> [k \in UserKeys |-> 0]]
            /\ last = [StepOf(0, route, Str(key), message, FALSE) EXCEPT !.called = TRUE]

SpecBusy == InitBusy /\ [][Next]_vars


\* ------------------------------------------------------------------ claims
\* The step answered 400, called no model and left both stores as they were.
Refused ==
    /\ last'.outcome = "sent"
    /\ last'.status = 400
    /\ ~last'.called
    /\ {r.id : r \in pending'} = {r.id : r \in pending}
    /\ UNCHANGED <<conversationHistory, therapistHistory>>

\* C1: a POST to /correct-grammar, /auto-complete, /roleplay or
\* /therapist-chat with a required field missing or empty is answered 400,
\* calls no model and changes neither store.
C1_MissingFieldRefused ==
    [][(last'.route \in ModelRoutes /\ last'.lacking) => Refused]_vars

\* A /roleplay request naming a user is refused while a history exists.
C1_Witness ==
    /\ last.route = "/roleplay"
    /\ last.lacking
    /\ last.status = 400
    /\ Truthy(last.userId)
    /\ conversationHistory # EmptyStore

\* C2: a request that passed validation and whose model call failed, or on
\* /roleplay whose text holds no JSON object, is answered 500 with the
\* error message: never 200, never no response.
C2_ModelFailureIs500 ==
    (/\ last.route \in ModelRoutes
     /\ (last.modelFailed \/ (last.route = "/roleplay" /\ last.noJson)))
        => /\ last.outcome = "sent"
           /\ last.status = 500
           /\ "details" \in last.keys
           /\ last.details # ""

\* /roleplay answered 500 on a text of the model that holds no JSON object.
C2_Witness ==
    /\ last.route = "/roleplay"
    /\ last.noJson
    /\ ~last.modelFailed
    /\ last.status = 500

\* C3: a reset scoped to a userId with no history in the store is answered
\* 404 and leaves the store unchanged, on /reset-history and /therapist-reset.
C3_UnknownUserResetIs404 ==
    [][\A userId \in UserIdValues :
        /\ (/\ ResetHistory(userId)
            /\ Truthy(userId)
            /\ ~HasOwn(conversationHistory, userId.v))
               => (last'.status = 404 /\ UNCHANGED conversationHistory)
        /\ (/\ TherapistReset(userId)
            /\ Truthy(userId)
            /\ ~HasOwn(therapistHistory, userId.v))
               => (last'.status = 404 /\ UNCHANGED therapistHistory)]_vars

\* C4: every response with status 400, 404 or 500 carries an error field
\* and a details field.
C4_ErrorsCarryErrorAndDetails ==
    last.status \in {400, 404, 500} => {"error", "details"} \subseteq last.keys

\* C4, amended: every response with status 400, 404 or 500 carries an error
\* field; the 500 responses carry a details field too, the 400 and 404
\* responses carry none.
C4_ErrorsCarryError ==
    /\ last.status \in {400, 404, 500} => "error" \in last.keys
    /\ last.status = 500 => ("details" \in last.keys /\ last.details # "")
    /\ last.status \in {400, 404} => "details" \notin last.keys

\* A chat request answered 500.
C4_Witness ==
    /\ last.route = "/therapist-chat"
    /\ last.status = 500

\* The entries of a history are in the order their requests were received.
InRequestOrder(h) == \A i, j \in 1..Len(h) : i < j => h[i].req <= h[j].req

\* C5: in each store a user's entries are in request order, also when two
\* requests of the user await the model at the same time.
C5_EntriesInRequestOrder ==
    /\ \A k \in DOMAIN conversationHistory : InRequestOrder(conversationHistory[k])
    /\ \A k \in DOMAIN therapistHistory : InRequestOrder(therapistHistory[k])

\* C6: every entry of either store has role "user" or "ai" and a text
\* message, whatever the model returned.
C6_EntriesAreText ==
    /\ \A k \in DOMAIN conversationHistory : \A i \in 1..Len(conversationHistory[k]) :
          /\ conversationHistory[k][i].role \in {"user", "ai"}
          /\ conversationHistory[k][i].message.type = "string"
    /\ \A k \in DOMAIN therapistHistory : \A i \in 1..Len(therapistHistory[k]) :
          /\ therapistHistory[k][i].role \in {"user", "ai"}
          /\ therapistHistory[k][i].content.type = "string"

\* User k's history is the same before and after the step.
Kept(store, storeAfter, k) ==
    /\ HasOwn(store, k) <=> HasOwn(storeAfter, k)
    /\ HasOwn(store, k) => storeAfter[k] = store[k]

\* C7: the roleplay routes never change the therapist store, the therapist
\* routes never change the roleplay store, /correct-grammar and
\* /auto-complete change neither, and a request that carries a userId
\* changes no other user's history.
C7_StoresAndUsersIsolated ==
    [][/\ last'.route \in {"/roleplay", "/reset-history"} => UNCHANGED therapistHistory
       /\ last'.route \in {"/therapist-chat", "/therapist-reset"}
             => UNCHANGED conversationHistory
       /\ last'.route \in {"/correct-grammar", "/auto-complete"}
             => UNCHANGED <<conversationHistory, therapistHistory>>
       /\ Truthy(last'.userId) =>
             \A k \in UserKeys \ {last'.userId.v} :
                 /\ Kept(conversationHistory, conversationHistory', k)
                 /\ Kept(therapistHistory, therapistHistory', k)]_vars

\* A reset scoped to one user has run while another user has a history.
C7_Witness ==
    /\ last.route = "/therapist-reset"
    /\ last.status = 200
    /\ Truthy(last.userId)
    /\ \E k \in DOMAIN therapistHistory : k # last.userId.v

\* No entry of user k's history belongs to a request received before the
\* last reset answered 200 that covered k.
Fresh(store, name) ==
    \A k \in DOMAIN store : \A i \in 1..Len(store[k]) :
        resetAt[name][k] = 0 \/ store[k][i].req > resetAt[name][k]

\* C8: once a reset has been answered 200, the user's history never holds
\* an entry of a request received before the reset.
C8_ResetClearsEarlierRequests ==
    /\ Fresh(conversationHistory, "roleplay")
    /\ Fresh(therapistHistory, "therapist")

\* The user entry a chat request pushed.
UserEntry(step) ==
    IF step.route = "/roleplay" THEN RoleplayEntry("user", step.message, step.id)
    ELSE TherapistEntry("user", step.message, step.id)

\* The store of the step's route, as the step left it.
OwnStoreAfter(step) ==
    IF step.route = "/roleplay" THEN conversationHistory' ELSE therapistHistory'

\* C9: when a chat request is answered 500 and nothing else ran for its user
\* meanwhile, the user's history is the one before the request with the
\* request's user entry appended.
C9_FailureKeepsUserEntry ==
    [][(/\ last'.route \in ChatRoutes
        /\ last'.status = 500
        /\ last'.ctx = "alone")
          => /\ HasOwn(OwnStoreAfter(last'), last'.userId.v)
             /\ OwnStoreAfter(last')[last'.userId.v] = Append(last'.before, UserEntry(last'))]_vars

\* A /roleplay request of a user with an earlier history is answered 500.
C9_Witness ==
    /\ last.route = "/roleplay"
    /\ last.status = 500
    /\ last.ctx = "alone"
    /\ last.before # <<>>

\* C10: when a reset removed the user's history while the request awaited
\* the model and no request for the user came after, the request is
\* answered 500 and the user has no history in the store, whatever the
\* model replied.
C10_ResetWhileAwaitingIs500 ==
    [][(/\ last'.route \in ChatRoutes
        /\ last'.outcome = "sent"
        /\ last'.ctx = "wiped")
          => /\ last'.status = 500
             /\ ~HasOwn(OwnStoreAfter(last'), last'.userId.v)]_vars

\* The model replied with a good text and the push found no history.
C10_Witness ==
    /\ last.route \in ChatRoutes
    /\ last.ctx = "wiped"
    /\ last.status = 500
    /\ last.details = "TypeError"

=============================================================================
